---------------------------- MODULE Spec2Model ----------------------------
(***************************************************************************)
(* Model of src-tauri/src/llm/ollama.rs: the Ollama provider.              *)
(*                                                                         *)
(*   - sample_frames          frame down-selection (pure)                  *)
(*   - image_to_base64        file read + standard base64                  *)
(*   - extract_json_text      code-fence stripping (pure, on characters)   *)
(*   - parse_session_summary  JSON parse, time repair                      *)
(*   - analyze_frames         the pipeline, one step per await point       *)
(*   - configure / is_configured                                           *)
(*                                                                         *)
(* Text is a sequence of one-character strings.                            *)
(***************************************************************************)
EXTENDS Integers, Sequences, FiniteSets, TLC

VARIABLES
    base_url,     \* OllamaProvider.base_url
    model,        \* OllamaProvider.model
    configured,   \* OllamaProvider.configured
    fs,           \* the file system: path -> bytes, or NoFile
    call,         \* the analyze_frames call in flight (its locals and position)
    requests,     \* the requests sent to {base_url}/api/chat, in order
    reads,        \* number of tokio::fs::read calls issued
    last_op,      \* the operation that ran last, with its argument
    sampler,      \* harness of sample_frames: input and outcome
    parser        \* harness of extract_json_text / parse_session_summary

vars == <<base_url, model, configured, fs, call, requests, reads, last_op,
          sampler, parser>>

providerVars == <<base_url, model, configured, fs, call, requests, reads, last_op>>

----------------------------------------------------------------------------
(* Bounds of the model *)

\* longest frame list given to sample_frames in its harness
MaxN == 4
\* largest max_frames given to sample_frames in its harness
MaxM == 4
\* longest frame list given to analyze_frames, besides the long ones
MaxFrames == 2
\* timestamps a reply may carry are 0..MaxTime
MaxTime == 2
\* pieces concatenated to build a reply text
MaxPieces == 4

----------------------------------------------------------------------------
(* Generic helpers *)

Max(a, b) == IF a >= b THEN a ELSE b

Min(a, b) == IF a <= b THEN a ELSE b

\* all sequences over S of length at most n
SeqsUpTo(S, n) == UNION {[1..k -> S] : k \in 0..n}

RECURSIVE Flatten(_)
Flatten(ss) == IF ss = <<>> THEN <<>> ELSE Head(ss) \o Flatten(Tail(ss))

\* r is a subsequence of f (elements of f, in f's order)
RECURSIVE IsSubsequence(_, _)
IsSubsequence(r, f) ==
    IF r = <<>> THEN TRUE
    ELSE IF f = <<>> THEN FALSE
    ELSE IF Head(r) = Head(f) THEN IsSubsequence(Tail(r), Tail(f))
    ELSE IsSubsequence(r, Tail(f))

----------------------------------------------------------------------------
(* sample_frames *)

Paths == {"p1", "p2", "p3"}

Ok(v) == [kind |-> "ok", value |-> v]

\* a Rust panic: the call does not return
Panic == [kind |-> "panic"]

\* Iterator::step_by(step): elements 0, step, 2*step, ...
StepBy(s, step) ==
    [i \in 1..((Len(s) + step - 1) \div step) |-> s[(i - 1) * step + 1]]

\* Iterator::take(n)
Take(s, n) == SubSeq(s, 1, Min(n, Len(s)))

\* usize division: a zero divisor panics
UsizeDiv(a, b) == IF b = 0 THEN Panic ELSE Ok(a \div b)

sample_frames(frames, max_frames) ==
    IF Len(frames) <= max_frames THEN Ok(frames)
    ELSE LET q == UsizeDiv(Len(frames), max_frames) IN
         IF q.kind = "panic" THEN Panic
         ELSE LET step == Max(q.value, 1) IN
              Ok(Take(StepBy(frames, step), max_frames))

NoOutcome == [kind |-> "none"]

SamplerIdle == [frames |-> <<>>, max_frames |-> 0, out |-> NoOutcome]

\* sample_frames runs on the arguments the initial state holds
SampleApply ==
    /\ sampler.out = NoOutcome
    /\ sampler' = [sampler EXCEPT !.out = sample_frames(sampler.frames, sampler.max_frames)]
    /\ UNCHANGED <<providerVars, parser>>

----------------------------------------------------------------------------
(* Text: str::trim, str::find, str::trim_start_matches *)

\* char::is_whitespace, on the characters the model uses
IsWhite(c) == c \in {" ", "\n", "\t", "\r"}

RECURSIVE trim_start(_)
trim_start(s) ==
    IF s # <<>> /\ IsWhite(Head(s)) THEN trim_start(Tail(s)) ELSE s

RECURSIVE trim_end(_)
trim_end(s) ==
    IF s # <<>> /\ IsWhite(s[Len(s)]) THEN trim_end(SubSeq(s, 1, Len(s) - 1)) ELSE s

trim(s) == trim_end(trim_start(s))

starts_with(s, p) == Len(s) >= Len(p) /\ SubSeq(s, 1, Len(p)) = p

\* Option::None of str::find
NotFound == -1

\* str::find: the 0-based offset of the first occurrence of p in s
find(s, p) ==
    LET hits == {i \in 0..(Len(s) - Len(p)) : SubSeq(s, i + 1, i + Len(p)) = p} IN
    IF hits = {} THEN NotFound
    ELSE CHOOSE i \in hits : \A k \in hits : i <= k

\* s[n..]
From(s, n) == SubSeq(s, n + 1, Len(s))

\* str::trim_start_matches: every leading repetition of p is removed
RECURSIVE trim_start_matches(_, _)
trim_start_matches(s, p) ==
    IF p # <<>> /\ starts_with(s, p) THEN trim_start_matches(From(s, Len(p)), p)
    ELSE s

\* str::trim_end_matches
RECURSIVE trim_end_matches(_, _)
trim_end_matches(s, p) ==
    IF p # <<>> /\ Len(s) >= Len(p) /\ SubSeq(s, Len(s) - Len(p) + 1, Len(s)) = p
    THEN trim_end_matches(SubSeq(s, 1, Len(s) - Len(p)), p)
    ELSE s

\* s contains p
Contains(s, p) == find(s, p) # NotFound

----------------------------------------------------------------------------
(* extract_json_text *)

\* the backquote character (U+0060), which a TLA+ string cannot hold: written '
Backtick == "'"

Fence == <<Backtick, Backtick, Backtick>>

JsonTag == <<"j", "s", "o", "n">>

FenceJson == Fence \o JsonTag

\* a plausible slip: the language tag is not removed
extract_json_text_keeps_tag(raw) ==
    LET s == trim(raw)
        pos == find(s, Fence)
    IN  IF pos = NotFound THEN s
        ELSE LET s2 == trim_start_matches(From(s, pos), Fence)
                 end == find(s2, Fence)
             IN  IF end = NotFound THEN s ELSE trim(SubSeq(s2, 1, end))

extract_json_text(raw) ==
    LET s == trim(raw)
        pos == find(s, Fence)
    IN  IF pos = NotFound THEN s
        ELSE LET s2 == trim_start_matches(
                           trim_start_matches(From(s, pos), FenceJson), Fence)
                 end == find(s2, Fence)
             IN  IF end = NotFound THEN s ELSE trim(SubSeq(s2, 1, end))

----------------------------------------------------------------------------
(* JSON text and serde_json::Value                                         *)
(*                                                                         *)
(* A reply is written with one character per JSON token group:             *)
(*   {  }     the braces of an object                                      *)
(*   S v      the member "start_time": v                                   *)
(*   E v      the member "end_time": v                                     *)
(*   B        the members title, summary, tags, key_moments,               *)
(*            productivity_score and focus_score, all well-typed           *)
(*   0..9     as a value: a string holding the RFC 3339 timestamp t        *)
(*   u        as a value: null                                             *)
(* Anything else is not JSON.                                              *)

DigitChars == <<"0", "1", "2", "3", "4", "5", "6", "7", "8", "9">>

TimeChar(t) == DigitChars[t + 1]

IsDigit(c) == \E i \in 1..Len(DigitChars) : DigitChars[i] = c

TimeOf(c) == (CHOOSE i \in 1..Len(DigitChars) : DigitChars[i] = c) - 1

JNull == [type |-> "null"]

JTime(t) == [type |-> "string", time |-> t]

JObject(m) == [type |-> "object", members |-> m]

Err(e, msg) == [kind |-> "err", error |-> e, message |-> msg]

IsValueChar(c) == IsDigit(c) \/ c = "u"

ParseValue(c) == IF IsDigit(c) THEN JTime(TimeOf(c)) ELSE JNull

\* Map::insert: a repeated key keeps the last value
Insert(m, k, v) == (k :> v) @@ m

EmptyMap == [k \in {} |-> JNull]

RECURSIVE ParseMembers(_, _)
ParseMembers(s, acc) ==
    IF s = <<>> THEN Ok(JObject(acc))
    ELSE IF IsWhite(Head(s)) THEN ParseMembers(Tail(s), acc)
    ELSE IF Head(s) = "B" THEN ParseMembers(Tail(s), Insert(acc, "body", JNull))
    ELSE IF Head(s) \in {"S", "E"} /\ Len(s) >= 2 /\ IsValueChar(s[2])
         THEN ParseMembers(Tail(Tail(s)),
                  Insert(acc, IF Head(s) = "S" THEN "start_time" ELSE "end_time",
                         ParseValue(s[2])))
    ELSE Err("syntax", <<>>)

\* serde_json::from_str::<Value>
from_str(text) ==
    LET t == trim(text) IN
    IF Len(t) = 1 /\ IsValueChar(t[1]) THEN Ok(ParseValue(t[1]))
    ELSE IF Len(t) >= 2 /\ t[1] = "{" /\ t[Len(t)] = "}"
         THEN ParseMembers(SubSeq(t, 2, Len(t) - 1), EmptyMap)
    ELSE Err("syntax", <<>>)

\* serde_json::to_value(DateTime<Utc>)
to_value(now) == JTime(now)

HasKey(v, k) == k \in DOMAIN v.members

\* serde_json::from_value::<SessionSummary>: the struct's required members
from_value(v) ==
    IF /\ v.type = "object"
       /\ HasKey(v, "body")
       /\ HasKey(v, "start_time") /\ v.members["start_time"].type = "string"
       /\ HasKey(v, "end_time") /\ v.members["end_time"].type = "string"
    THEN Ok([start_time |-> v.members["start_time"].time,
             end_time |-> v.members["end_time"].time])
    ELSE Err("SchemaMismatch", <<>>)

----------------------------------------------------------------------------
(* parse_session_summary *)

\* "Ollama 返回不是合法 JSON: {e}; raw="
MalformedPrefix == <<"e", ";", "r", "a", "w", "=">>

\* a plausible slip: the message carries the fence-stripped text
MalformedError_stripped(raw) ==
    Err("MalformedResponse", MalformedPrefix \o extract_json_text(raw))

MalformedError(raw) == Err("MalformedResponse", MalformedPrefix \o raw)

\* a plausible slip: end_time is not injected
InjectTimes_start_only(v, now) ==
    IF v.type # "object" THEN v
    ELSE IF ~HasKey(v, "start_time")
         THEN JObject(Insert(v.members, "start_time", to_value(now)))
         ELSE v

\* the injection of the missing time members
InjectTimes(v, now) ==
    IF v.type # "object" THEN v
    ELSE LET m1 == IF ~HasKey(v, "start_time")
                   THEN Insert(v.members, "start_time", to_value(now))
                   ELSE v.members
             m2 == IF "end_time" \notin DOMAIN m1
                   THEN Insert(m1, "end_time", to_value(now))
                   ELSE m1
         IN  JObject(m2)

\* a plausible slip: only start_time is reset
RepairTimes_start_only(summary, now) ==
    IF summary.start_time > summary.end_time
    THEN [summary EXCEPT !.start_time = now]
    ELSE summary

\* the reset of an inverted time range
RepairTimes(summary, now) ==
    IF summary.start_time > summary.end_time
    THEN [start_time |-> now, end_time |-> now]
    ELSE summary

\* now1, now2: the two readings of Utc::now()
parse_session_summary(raw, now1, now2) ==
    LET json_text == extract_json_text(raw)
        parsed == from_str(json_text)
    IN  IF parsed.kind = "err" THEN MalformedError(raw)
        ELSE LET v == InjectTimes(parsed.value, now1)
                 converted == from_value(v)
             IN  IF converted.kind = "err" THEN converted
                 ELSE Ok(RepairTimes(converted.value, now2))

----------------------------------------------------------------------------
(* image_to_base64 *)

NoFile == <<-1>>

\* contents of a readable file, as bytes
FileContents == {<<77>>, <<77, 97>>, <<77, 97, 110>>}

B64Alphabet ==
    <<"A", "B", "C", "D", "E", "F", "G", "H", "I", "J", "K", "L", "M", "N", "O", "P",
      "Q", "R", "S", "T", "U", "V", "W", "X", "Y", "Z", "a", "b", "c", "d", "e", "f",
      "g", "h", "i", "j", "k", "l", "m", "n", "o", "p", "q", "r", "s", "t", "u", "v",
      "w", "x", "y", "z", "0", "1", "2", "3", "4", "5", "6", "7", "8", "9", "+", "/">>

B64Char(n) == B64Alphabet[n + 1]

\* general_purpose::STANDARD.encode: 3 bytes to 4 characters, padded with =
RECURSIVE Base64(_)
Base64(bytes) ==
    IF bytes = <<>> THEN <<>>
    ELSE IF Len(bytes) = 1 THEN
        <<B64Char(bytes[1] \div 4), B64Char((bytes[1] % 4) * 16), "=", "=">>
    ELSE IF Len(bytes) = 2 THEN
        <<B64Char(bytes[1] \div 4),
          B64Char((bytes[1] % 4) * 16 + bytes[2] \div 16),
          B64Char((bytes[2] % 16) * 4), "=">>
    ELSE
        <<B64Char(bytes[1] \div 4),
          B64Char((bytes[1] % 4) * 16 + bytes[2] \div 16),
          B64Char((bytes[2] % 16) * 4 + bytes[3] \div 64),
          B64Char(bytes[3] % 64)>> \o Base64(SubSeq(bytes, 4, Len(bytes)))

\* tokio::fs::read(path) then the encoding
image_to_base64(path) ==
    IF fs[path] = NoFile THEN Err("EncodeFailure", <<>>)
    ELSE Ok(Base64(fs[path]))

----------------------------------------------------------------------------
(* OllamaProvider::new, configure, is_configured *)

DefaultUrl ==
    <<"h", "t", "t", "p", ":", "/", "/", "1", "0", "0", ".", "8", "2", ".",
      "1", "8", ".", "9", "1", ":", "1", "1", "4", "3", "4">>

DefaultModel == "qwen3-vl:32b"

\* values of config["base_url"] and config["model"] handed to configure
UrlX == <<"h", "t", "t", "p", ":", "/", "/", "x", ":", "1", "/">>

Urls == {<<>>, <<" ">>, UrlX, <<" ">> \o UrlX}

Absent == [key |-> "absent"]

\* present, but not a JSON string: as_str() is None
NonString == [key |-> "nonstring"]

Str(v) == [key |-> "string", value |-> v]

Configs ==
    [base_url : {Absent, NonString} \cup {Str(u) : u \in Urls},
     model : {Absent, NonString, Str("llava")}]

\* a plausible slip: the endpoint is not trimmed
EndpointSet_untrimmed(url) == url # <<>>

\* !self.base_url.trim().is_empty()
EndpointSet(url) == trim(url) # <<>>

is_configured == configured

CallIdle ==
    [pc |-> "idle", frames |-> <<>>, sampled |-> <<>>, next |-> 0,
     images_b64 |-> <<>>, result |-> NoOutcome]

\* configure takes &mut self: it runs only while no analyze_frames borrows the provider
configure(config) ==
    /\ call.pc = "idle"
    /\ LET url == IF config.base_url.key = "string" THEN config.base_url.value
                  ELSE base_url
       IN  /\ base_url' = url
           /\ configured' = EndpointSet(url)
    /\ model' = IF config.model.key = "string" THEN config.model.value ELSE model
    /\ last_op' = [op |-> "configure", config |-> config,
                   before |-> [base_url |-> base_url, configured |-> configured]]
    /\ UNCHANGED <<fs, call, requests, reads, sampler, parser>>

Configure == \E config \in Configs : configure(config)

----------------------------------------------------------------------------
(* call_ollama_chat *)

ApiChat == <<"/", "a", "p", "i", "/", "c", "h", "a", "t">>

\* the static text build_prompt returns
Prompt == "prompt"

ChatRequest(images_b64) ==
    [url |-> trim_end_matches(base_url, <<"/">>) \o ApiChat,
     model |-> model,
     stream |-> FALSE,
     messages |-> <<[role |-> "user", content |-> Prompt, images |-> images_b64]>>]

\* replies the remote model may give
ChatReplies ==
    { FenceJson \o <<"\n", "{", "S", "0", "E", "1", "B", "}", "\n">> \o Fence,
      <<"{", "S", "1", "E", "0", "B", "}">>,
      <<"{", "B", "}">>,
      <<"{", "S", "0", "E", "1", "}">>,
      <<"x">> }

Times == 0..MaxTime

----------------------------------------------------------------------------
(* analyze_frames: one action per stretch of code between two awaits *)

\* the bound analyze_frames gives sample_frames
AnalysisMaxFrames == 30

\* a plausible slip: the configured flag is not consulted
Unconfigured_ignored(flag) == FALSE

\* if !self.configured
Unconfigured(flag) == ~flag

\* a plausible slip: the newest image goes first
PushImage_front(images, b64) == <<b64>> \o images

\* images_b64.push(b64)
PushImage(images, b64) == Append(images, b64)

\* a plausible slip: an empty batch is sent on
NoUsableFrames_never(images) == FALSE

\* if images_b64.is_empty()
NoUsableFrames(images) == images = <<>>

\* the code after the encoding loop, up to the await of the request
AfterEncoding(c) ==
    IF NoUsableFrames(c.images_b64)
    THEN /\ call' = [c EXCEPT !.pc = "done",
                              !.result = Err("NoUsableFrames", <<>>)]
         /\ UNCHANGED requests
    ELSE /\ call' = [c EXCEPT !.pc = "chat"]
         /\ requests' = Append(requests, ChatRequest(c.images_b64))

\* frame lists longer than the bound of 30, so that sampling strides
LongFrames(n) == [i \in 1..n |-> IF i % 3 = 0 THEN "p3" ELSE IF i % 3 = 1 THEN "p1" ELSE "p2"]

FrameInputs ==
    SeqsUpTo(Paths, MaxFrames)
        \cup {LongFrames(AnalysisMaxFrames + 1), LongFrames(2 * AnalysisMaxFrames + 5)}

\* the call, up to its first await (the first read) or its early return
AnalyzeStart(frames) ==
    /\ call.pc = "idle"
    /\ last_op' = [op |-> "analyze_frames"]
    /\ IF Unconfigured(configured)
       THEN /\ call' = [CallIdle EXCEPT !.pc = "done", !.frames = frames,
                                        !.result = Err("NotConfigured", <<>>)]
            /\ UNCHANGED <<requests, reads>>
       ELSE LET sampled == sample_frames(frames, AnalysisMaxFrames) IN
            IF sampled.kind = "panic"
            THEN /\ call' = [CallIdle EXCEPT !.pc = "done", !.frames = frames,
                                             !.result = Panic]
                 /\ UNCHANGED <<requests, reads>>
            ELSE LET c == [CallIdle EXCEPT !.frames = frames,
                                           !.sampled = sampled.value,
                                           !.next = 1]
                 IN  IF sampled.value = <<>>
                     THEN AfterEncoding(c) /\ UNCHANGED reads
                     ELSE /\ call' = [c EXCEPT !.pc = "encode"]
                          /\ reads' = reads + 1
                          /\ UNCHANGED requests
    /\ UNCHANGED <<base_url, model, configured, fs, sampler, parser>>

AnalyzeFrames == \E frames \in FrameInputs : AnalyzeStart(frames)

\* the read of frame call.next completes; the loop goes on to the next read, or ends
EncodeStep ==
    /\ call.pc = "encode"
    /\ LET path == call.sampled[call.next]
           enc == image_to_base64(path)
           images == IF enc.kind = "ok" THEN PushImage(call.images_b64, enc.value)
                     ELSE call.images_b64
           c == [call EXCEPT !.images_b64 = images, !.next = call.next + 1]
       IN  IF call.next < Len(call.sampled)
           THEN /\ call' = c
                /\ reads' = reads + 1
                /\ UNCHANGED requests
           ELSE AfterEncoding(c) /\ UNCHANGED reads
    /\ last_op' = [op |-> "encode"]
    /\ UNCHANGED <<base_url, model, configured, fs, sampler, parser>>

\* the request fails (transport error or non-success status)
ChatFails ==
    /\ call.pc = "chat"
    /\ call' = [call EXCEPT !.pc = "done", !.result = Err("TransportFailure", <<>>)]
    /\ last_op' = [op |-> "chat"]
    /\ UNCHANGED <<base_url, model, configured, fs, requests, reads, sampler, parser>>

\* the reply arrives and is parsed
ChatReplyArrives ==
    /\ call.pc = "chat"
    /\ \E raw \in ChatReplies, now1 \in Times, now2 \in Times :
           call' = [call EXCEPT !.pc = "done",
                                !.result = parse_session_summary(raw, now1, now2)]
    /\ last_op' = [op |-> "chat"]
    /\ UNCHANGED <<base_url, model, configured, fs, requests, reads, sampler, parser>>

\* the caller takes the result
Return ==
    /\ call.pc = "done"
    /\ call' = CallIdle
    /\ requests' = <<>>
    /\ reads' = 0
    /\ last_op' = [op |-> "return"]
    /\ UNCHANGED <<base_url, model, configured, fs, sampler, parser>>

----------------------------------------------------------------------------
(* Harness of the parser *)

\* now1, now2: the readings of Utc::now() the run of parse_session_summary made
ParserIdle ==
    [raw |-> <<>>, text |-> NoOutcome, out |-> NoOutcome, now1 |-> -1, now2 |-> -1]

\* extract_json_text runs on the reply the initial state holds
ExtractApply ==
    /\ parser.text = NoOutcome
    /\ parser' = [parser EXCEPT !.text = Ok(extract_json_text(parser.raw))]
    /\ UNCHANGED <<providerVars, sampler>>

\* parse_session_summary runs on it
ParseApply ==
    /\ parser.out = NoOutcome
    /\ \E now1 \in Times, now2 \in Times :
           parser' = [parser EXCEPT
                         !.out = parse_session_summary(parser.raw, now1, now2),
                         !.now1 = now1,
                         !.now2 = now2]
    /\ UNCHANGED <<providerVars, sampler>>

\* reply texts: every concatenation of a few pieces
FencePieces == {Fence, JsonTag, <<" ">>, <<"x">>, <<Backtick>>}

FenceTexts == {Flatten(ps) : ps \in SeqsUpTo(FencePieces, MaxPieces)}

TimeMembers(key) ==
    {<<>>, <<key, "u">>} \cup {<<key, TimeChar(t)>> : t \in Times}

\* JSON objects, with the members in either order
Docs ==
    UNION { { <<"{">> \o st \o en \o b \o <<"}">>, <<"{">> \o b \o en \o st \o <<"}">> } :
            st \in TimeMembers("S"), en \in TimeMembers("E"), b \in {<<>>, <<"B">>} }

\* the same, cut short
BrokenDocs == {SubSeq(d, 1, Len(d) - 1) : d \in Docs}

Wrappings(d) ==
    { d,
      <<" ">> \o d \o <<"\n">>,
      Fence \o d \o Fence,
      FenceJson \o <<"\n">> \o d \o <<"\n">> \o Fence,
      <<" ", "x">> \o FenceJson \o d \o Fence \o <<"x">>,
      Fence \o d }

ReplyTexts == FenceTexts \cup UNION {Wrappings(d) : d \in Docs \cup BrokenDocs}

----------------------------------------------------------------------------
(* Specifications *)

ProviderInit ==
    /\ base_url = DefaultUrl
    /\ model = DefaultModel
    /\ configured = TRUE
    /\ call = CallIdle
    /\ requests = <<>>
    /\ reads = 0
    /\ last_op = [op |-> "new"]

\* the provider: construction, then configure and analyze_frames calls
Init ==
    /\ ProviderInit
    /\ fs \in [Paths -> FileContents \cup {NoFile}]
    /\ sampler = SamplerIdle
    /\ parser = ParserIdle

Next ==
    \/ Configure
    \/ AnalyzeFrames
    \/ EncodeStep
    \/ ChatFails
    \/ ChatReplyArrives
    \/ Return

Spec == Init /\ [][Next]_vars

\* sample_frames on every small input
InitSample ==
    /\ ProviderInit
    /\ fs = [p \in Paths |-> NoFile]
    /\ parser = ParserIdle
    /\ \E f \in SeqsUpTo(Paths, MaxN), m \in 0..MaxM :
           sampler = [frames |-> f, max_frames |-> m, out |-> NoOutcome]

NextSample == SampleApply

SpecSample == InitSample /\ [][NextSample]_vars

\* extract_json_text and parse_session_summary on every reply text
InitParse ==
    /\ ProviderInit
    /\ fs = [p \in Paths |-> NoFile]
    /\ sampler = SamplerIdle
    /\ \E raw \in ReplyTexts : parser = [ParserIdle EXCEPT !.raw = raw]

NextParse == ExtractApply \/ ParseApply

SpecParse == InitParse /\ [][NextParse]_vars

----------------------------------------------------------------------------
(* Properties of sample_frames (under SpecSample) *)

Sampled == sampler.out # NoOutcome

SampleContract ==
    /\ sampler.out.kind = "ok"
    /\ Len(sampler.out.value) <= sampler.max_frames
    /\ IsSubsequence(sampler.out.value, sampler.frames)
    /\ (Len(sampler.frames) <= sampler.max_frames => sampler.out.value = sampler.frames)

\* C1: for every frame list and every bound M, sample_frames returns at most M
\* frames, a subsequence of the input in its order, and the input itself when
\* it holds at most M frames.
C1_SampleContract == Sampled => SampleContract

\* The same for every bound M >= 1 (what the code does satisfy).
SampleContractPositiveBound == (Sampled /\ sampler.max_frames >= 1) => SampleContract

\* C2: with M = 0 sample_frames returns the empty sequence for every frame
\* list, the non-empty ones included, and never divides by zero.
C2_ZeroBoundReturnsEmpty ==
    (Sampled /\ sampler.max_frames = 0) => sampler.out = Ok(<<>>)

----------------------------------------------------------------------------
(* Properties of configure and analyze_frames (under Spec) *)

IsError(r, e) == r.kind = "err" /\ r.error = e

\* what analyze_frames samples from its input
SampledOf(frames) == sample_frames(frames, AnalysisMaxFrames).value

\* every frame of the batch fails to encode
AllFail(sampled) == \A i \in 1..Len(sampled) : fs[sampled[i]] = NoFile

\* the encodings of the frames that can be read, in the order of the batch
RECURSIVE EncodedOk(_)
EncodedOk(sampled) ==
    IF sampled = <<>> THEN <<>>
    ELSE IF fs[Head(sampled)] = NoFile THEN EncodedOk(Tail(sampled))
    ELSE <<Base64(fs[Head(sampled)])>> \o EncodedOk(Tail(sampled))

\* C3: a call made while the provider is unconfigured has failed with the
\* "not configured" error, for any frames, with no frame read or encoded and
\* no request sent.
C3_NotConfiguredFailsFirst ==
    (call.pc # "idle" /\ ~is_configured) =>
        /\ call.pc = "done"
        /\ IsError(call.result, "NotConfigured")
        /\ reads = 0
        /\ call.images_b64 = <<>>
        /\ requests = <<>>

C3_Witness ==
    /\ call.pc = "done"
    /\ ~is_configured
    /\ IsError(call.result, "NotConfigured")
    /\ call.frames # <<>>
    /\ fs[call.frames[1]] # NoFile

\* C4: on a configured provider a call whose input is empty, or whose sampled
\* frames all fail to encode, fails with "no usable frames" and sends no
\* request; a call with at least one encodable sampled frame sends its request
\* and does not fail that way.
C4_NoUsableFrames ==
    (call.pc \in {"chat", "done"} /\ is_configured) =>
        IF AllFail(SampledOf(call.frames))
        THEN /\ call.pc = "done"
             /\ IsError(call.result, "NoUsableFrames")
             /\ requests = <<>>
        ELSE /\ Len(requests) = 1
             /\ call.pc = "done" => ~IsError(call.result, "NoUsableFrames")

C4_Witness ==
    /\ call.pc = "done"
    /\ is_configured
    /\ Len(call.frames) >= 2
    /\ IsError(call.result, "NoUsableFrames")
    /\ requests = <<>>

ConfiguredIffEndpoint == is_configured <=> (trim(base_url) # <<>>)

Configured_by(arg) == last_op.op = "configure" /\ last_op.config.base_url = arg

\* a configure call without a usable base_url leaves endpoint and state alone
ConfigureKeepsEndpoint ==
    \A arg \in {Absent, NonString} :
        Configured_by(arg) =>
            /\ base_url = last_op.before.base_url
            /\ is_configured = last_op.before.configured

\* C5 as stated: is_configured() is true exactly when the endpoint is non-empty
\* after trimming; configure with base_url "" gives Unconfigured, with any
\* non-empty base_url gives Configured, without a base_url key changes nothing.
C5_AsStated ==
    /\ ConfiguredIffEndpoint
    /\ Configured_by(Str(<<>>)) => ~is_configured
    /\ \A u \in Urls : (u # <<>> /\ Configured_by(Str(u))) => is_configured
    /\ ConfigureKeepsEndpoint

\* C5, amended: ... configure with a base_url that is non-empty after trimming
\* gives Configured, and with a base_url that is empty or only whitespace gives
\* Unconfigured.
C5_ConfiguredIffTrimmedEndpoint ==
    /\ ConfiguredIffEndpoint
    /\ \A u \in Urls :
           Configured_by(Str(u)) =>
               /\ base_url = u
               /\ is_configured <=> (trim(u) # <<>>)
    /\ ConfigureKeepsEndpoint

C5_Witness ==
    /\ Configured_by(Str(<<" ">>))
    /\ ~is_configured
    /\ last_op.before.configured

\* C10: the one request of a call carries the encodings of exactly the sampled
\* frames that encoded, in sampled order, and is sent only after every sampled
\* frame has been attempted.
C10_ImagesInSampledOrder ==
    /\ Len(requests) <= 1
    /\ requests # <<>> =>
           /\ call.sampled = SampledOf(call.frames)
           /\ reads = Len(call.sampled)
           /\ call.next = Len(call.sampled) + 1
           /\ requests[1].messages[1].images = EncodedOk(call.sampled)

C10_Witness ==
    /\ requests # <<>>
    /\ Len(call.frames) > AnalysisMaxFrames
    /\ \E i, j, k \in 1..Len(call.sampled) :
           /\ i < j /\ j < k
           /\ fs[call.sampled[i]] # NoFile
           /\ fs[call.sampled[j]] = NoFile
           /\ fs[call.sampled[k]] # NoFile
           /\ fs[call.sampled[k]] # fs[call.sampled[i]]

----------------------------------------------------------------------------
(* Properties of the parser (under SpecParse) *)

Extracted == parser.text # NoOutcome

Parsed == parser.out # NoOutcome

\* the trimmed reply opens with a fence
Wrapped(s) == starts_with(s, Fence)

\* what follows the opening fence and its json tag
AfterOpening(s) ==
    LET r == From(s, Len(Fence)) IN
    IF starts_with(r, JsonTag) THEN From(r, Len(JsonTag)) ELSE r

HasClosing(s) == Contains(AfterOpening(s), Fence)

\* the text between the opening fence (and its tag) and the next fence
Enclosed(s) == SubSeq(AfterOpening(s), 1, find(AfterOpening(s), Fence))

Fenced(s) == Wrapped(s) /\ HasClosing(s)

UnfencedUnchanged ==
    ~Contains(parser.raw, Fence) => parser.text.value = trim(parser.raw)

\* C6 as stated: a fenced reply yields exactly the enclosed text; a reply
\* without a fence yields the trimmed reply.
C6_AsStated ==
    Extracted =>
        /\ Fenced(trim(parser.raw)) => parser.text.value = Enclosed(trim(parser.raw))
        /\ UnfencedUnchanged

\* C6, amended: a fenced reply whose enclosed text is not empty yields the
\* enclosed text with its surrounding whitespace trimmed (the only tag
\* removed being json); a reply without a fence yields the trimmed reply.
C6_ExtractsTrimmedEnclosedText ==
    Extracted =>
        /\ (Fenced(trim(parser.raw)) /\ Enclosed(trim(parser.raw)) # <<>>) =>
               parser.text.value = trim(Enclosed(trim(parser.raw)))
        /\ UnfencedUnchanged

C6_Witness ==
    /\ Extracted
    /\ starts_with(trim(parser.raw), FenceJson)
    /\ Fenced(trim(parser.raw))
    /\ trim(Enclosed(trim(parser.raw))) # <<>>
    /\ trim(Enclosed(trim(parser.raw))) # Enclosed(trim(parser.raw))
    /\ parser.text.value = trim(Enclosed(trim(parser.raw)))

\* the JSON value of the reply, fences stripped
ReplyValue == from_str(extract_json_text(parser.raw))

ReplyIsObject == ReplyValue.kind = "ok" /\ ReplyValue.value.type = "object"

ReplyHas(k) == HasKey(ReplyValue.value, k)

ReplyTime(k) == ReplyValue.value.members[k]

\* the reply carries both times, start after end
Inverted ==
    /\ ReplyIsObject
    /\ ReplyHas("start_time") /\ ReplyTime("start_time").type = "string"
    /\ ReplyHas("end_time") /\ ReplyTime("end_time").type = "string"
    /\ ReplyTime("start_time").time > ReplyTime("end_time").time

\* C7: every summary returned has start_time <= end_time, and one parsed from
\* a reply with start_time > end_time has both set to one timestamp.
C7_StartNotAfterEnd ==
    (Parsed /\ parser.out.kind = "ok") =>
        /\ parser.out.value.start_time <= parser.out.value.end_time
        /\ Inverted =>
               /\ parser.out.value.start_time = parser.out.value.end_time
               /\ parser.out.value.start_time = parser.now2

C7_Witness ==
    /\ Parsed
    /\ parser.out.kind = "ok"
    /\ Inverted
    /\ parser.now2 # ReplyTime("start_time").time
    /\ parser.now2 # ReplyTime("end_time").time
    /\ parser.out.value = [start_time |-> parser.now2, end_time |-> parser.now2]

\* the reply matches the schema but for a missing start_time, end_time or both
MissingTimes ==
    /\ ReplyIsObject
    /\ ReplyHas("body")
    /\ ~ReplyHas("start_time") \/ ~ReplyHas("end_time")
    /\ ReplyHas("start_time") => ReplyTime("start_time").type = "string"
    /\ ReplyHas("end_time") => ReplyTime("end_time").type = "string"

\* C8: a reply that lacks start_time, end_time or both parses to a summary
\* whose two times are timestamps, a missing one being a reading of the clock.
C8_MissingTimesInjected ==
    (Parsed /\ MissingTimes) =>
        /\ parser.out.kind = "ok"
        /\ parser.out.value.start_time \in Times
        /\ parser.out.value.end_time \in Times
        /\ ~ReplyHas("start_time") =>
               parser.out.value.start_time \in {parser.now1, parser.now2}
        /\ ~ReplyHas("end_time") =>
               parser.out.value.end_time \in {parser.now1, parser.now2}
        /\ (~ReplyHas("start_time") /\ ~ReplyHas("end_time")) =>
               parser.out.value = [start_time |-> parser.now1, end_time |-> parser.now1]

C8_Witness ==
    /\ Parsed
    /\ MissingTimes
    /\ ReplyHas("start_time")
    /\ ~ReplyHas("end_time")
    /\ parser.out.kind = "ok"
    /\ parser.out.value.end_time = parser.now1
    /\ parser.out.value.start_time # parser.now1

\* C9: a reply that is not JSON once its fences are stripped fails to parse,
\* and the error message holds the raw reply, not only the stripped text.
C9_MalformedCarriesRaw ==
    (Parsed /\ ReplyValue.kind = "err") =>
        /\ IsError(parser.out, "MalformedResponse")
        /\ Contains(parser.out.message, parser.raw)

C9_Witness ==
    /\ Parsed
    /\ ReplyValue.kind = "err"
    /\ IsError(parser.out, "MalformedResponse")
    /\ Fenced(trim(parser.raw))
    /\ ~Contains(extract_json_text(parser.raw), parser.raw)
    /\ Contains(parser.out.message, parser.raw)

============================================================================
